---- MODULE Spec2Model ----
(***************************************************************************)
(* express-slonik: RequestTransactionContext (src/src/index.ts 102-227).   *)
(* A chain of Express handlers shares one Slonik transaction.  begin()     *)
(* opens the transaction through pool.transaction and holds it open on a   *)
(* promise; commit(), catchError() and the response's finish / error       *)
(* events settle that promise; begin() then resumes the chain and cleans   *)
(* up.  Every action below is one run-to-completion block of the Node.js   *)
(* event loop: the code between two awaits, with every handler that the    *)
(* continuation next() invokes synchronously.                              *)
(***************************************************************************)
EXTENDS Naturals, Integers, Sequences, FiniteSets, TLC

VARIABLES
  chain,      \* chain[r]: the handlers mounted on the route request r takes
  idx,        \* idx[r]: the route's cursor, the number of layers next() has consumed
  reqTid,     \* req.transactionId (0 when deleted / never set)
  reqTx,      \* req.transaction: the handle <<scope id, attempt>> (NoCtx when deleted)
  resp,       \* the response: "open", "ended" (sent, finish not yet emitted), "finished", "errored"
  resL,       \* the listeners begin() registered on res, in registration order
  running,    \* running[r]: the asynchronous user handlers that have not returned yet
  scope,      \* scope[s]: the invocation of the begin() handler that drew transactionId s
  registry,   \* this.transactionContext: transactionId -> TransactionContext object
  ctxs,       \* the TransactionContext objects, one per attempt <<s, a>>
  tx,         \* the transactions the pool opened, one per attempt <<s, a>>
  db,         \* the rows visible to every connection: the attempts whose write was committed
  conflicts,  \* how many serialization failures the database has raised
  pool,       \* this.pool: TRUE when the controller holds a pool
  instance,   \* RequestTransactionContext.instance: 0 when unset, else a controller's number
  controllers,\* the controllers constructed so far; controllers[n].pool is this.pool of n
  calls,      \* the calls of createMiddleware / getOrCreateContext and what they returned (history)
  asyncCreatePool, \* the installed Slonik: TRUE when its createPool returns a promise
  trace       \* trace[r]: what happened on request r, in order (history)

vars == <<chain, idx, reqTid, reqTx, resp, resL, running, scope, registry, ctxs, tx, db,
          conflicts, pool, instance, controllers, calls, asyncCreatePool, trace>>

----------------------------------------------------------------------------
(* Bounds and program constants *)

\* The requests in flight.
Req == {"A", "B"}

\* How many serialization failures the database raises in one run.
MaxConflicts == 2

\* begin()'s default retry limit.
DefaultRetryLimit == 5

\* The retry limit the routes of the model pass to begin(level, retryLimit).
RetryLimit == 1

READ_COMMITTED == "READ COMMITTED"
REPEATABLE_READ == "REPEATABLE READ"
SERIALIZABLE == "SERIALIZABLE"
IsolationLevels == {READ_COMMITTED, REPEATABLE_READ, SERIALIZABLE}

NoCtx == <<0, 0>>

\* Error values.  at is the place that created the error: the stage of the chain.
Err(name, at) == [name |-> name, at |-> at]
NoErr == Err("none", 0)

----------------------------------------------------------------------------
(* The controller registry: createMiddleware and getOrCreateContext *)

\* How many createMiddleware / getOrCreateContext calls one process makes.
MaxCalls == 3

\* The methods of a Slonik pool that isDatabasePool compares (Object.keys of a pool;
\* three of them stand for the list).
PoolMethods == {"connect", "query", "transaction"}

\* What a caller may pass: two pools, an object with some of a pool's methods, a
\* connection URI (a string), and undefined.
Arg(name, methods) == [name |-> name, methods |-> methods]
P1 == Arg("P1", PoolMethods)
P2 == Arg("P2", PoolMethods)
Partial == Arg("partial", {"query"})
Uri == Arg("uri", {})
Undefined == Arg("undefined", {})
Args == {P1, P2, Partial, Uri, Undefined}

\* The static state of the class as one record.
Statics == [instance |-> instance, controllers |-> controllers]
NoStatics == [instance |-> 0, controllers |-> <<>>]

\* What a call leaves behind: the statics, and the controller returned (0 when the call
\* threw) or the error thrown ("none" when it returned).
Outcome(g, ret, err) == [g |-> g, ret |-> ret, err |-> err]

\* Mutant of GetOrCreateContext: every call constructs a controller.
GetOrCreateContextFresh(g, a) ==
  LET n == Len(g.controllers) + 1
  IN Outcome([instance |-> n, controllers |-> Append(g.controllers, [pool |-> a])],
               n, "none")

\* Mutant of GetOrCreateContext: a call with another pool binds the instance to it.
GetOrCreateContextRebinds(g, a) ==
  IF g.instance = 0
  THEN LET n == Len(g.controllers) + 1
       IN Outcome([instance |-> n, controllers |-> Append(g.controllers, [pool |-> a])],
               n, "none")
  ELSE Outcome([g EXCEPT !.controllers[g.instance].pool = a], g.instance, "none")

\* RequestTransactionContext.getOrCreateContext(pool): construct the controller if the
\* static instance is unset, and return the static instance.
GetOrCreateContext(g, a) ==
  IF g.instance = 0
  THEN LET n == Len(g.controllers) + 1
       IN Outcome([instance |-> n, controllers |-> Append(g.controllers, [pool |-> a])],
               n, "none")
  ELSE Outcome(g, g.instance, "none")

\* Object.keys(createPool("")): the methods of a pool when createPool returns the pool,
\* and nothing when it returns a promise, which has no enumerable property of its own.
KeysOfCreatePool == IF asyncCreatePool THEN {} ELSE PoolMethods

\* isDatabasePool(poolLike): every key of createPool("") has the same type on poolLike
\* (every() of no key is true, and poolLike is not read).  Reading a property of
\* undefined throws a TypeError.
IsDatabasePool(a) ==
  IF KeysOfCreatePool = {} THEN "true"
  ELSE IF a = Undefined THEN "TypeError"
  ELSE IF \A m \in KeysOfCreatePool : m \in a.methods THEN "true" ELSE "false"

\* createMiddleware(pool)
CreateMiddleware(g, a) ==
  IF IsDatabasePool(a) = "true" THEN GetOrCreateContext(g, a)
  ELSE Outcome(g, 0, "TypeError")

Call(fn, a, o) == [fn |-> fn, arg |-> a, ret |-> o.ret, err |-> o.err]

----------------------------------------------------------------------------
(* The handler chains *)

Stage(k, mode, level, retry) == [k |-> k, mode |-> mode, level |-> level, retry |-> retry]

\* transaction.begin(level, retryLimit) and transaction.begin()
Begin(level, retry) == Stage("begin", "-", level, retry)
\* begin called with the arguments args: a parameter that is not passed takes its default.
BeginArgs(args) ==
  Begin(IF Len(args) >= 1 THEN args[1] ELSE READ_COMMITTED,
        IF Len(args) >= 2 THEN args[2] ELSE DefaultRetryLimit)
BeginDefault == BeginArgs(<<>>)
\* transaction.commit(), transaction.catchError()
CommitStage == Stage("commit", "-", "-", 0)
CatchErrorStage == Stage("catchError", "-", "-", 0)
\* Mutant of End: the pair in the other order.
EndReversed == <<CatchErrorStage, CommitStage>>

\* transaction.end(): the array of the two handlers, which the route flattens into its
\* stack (\o below).
End == <<CommitStage, CatchErrorStage>>
\* A user handler: asynchronous (it awaits queries and continues or answers later),
\* or synchronous (it calls next() or throws before it returns).
H == Stage("handler", "async", "-", 0)
HNext == Stage("handler", "next", "-", 0)
HThrow == Stage("handler", "throw", "-", 0)
\* An error handler of the application mounted in the route, (err, req, res, next):
\* it handles the error and lets the chain go on with next().
HRecover == Stage("recover", "-", "-", 0)

\* The routes of the model.
ChainBasic == <<BeginDefault, H>> \o End
ChainNoEnd == <<BeginDefault, H>>
ChainTwice == <<Begin(READ_COMMITTED, RetryLimit), H>> \o End \o <<BeginDefault, H>>
ChainCommitOutside == <<HNext, CommitStage>>
ChainCatchOutside == <<HThrow, CatchErrorStage>>
ChainEndTwice == <<BeginDefault, H>> \o End \o End
ChainThrowAfterEnd == <<BeginDefault, HNext>> \o End \o <<HThrow>> \o End
ChainNested == <<BeginDefault, BeginDefault, H>> \o End \o End
ChainRetry == <<Begin(SERIALIZABLE, RetryLimit), H>> \o End \o <<H>> \o End
ChainRecover == <<BeginDefault, H>> \o End \o <<HRecover>> \o End

ChainShapes == {ChainBasic, ChainNoEnd, ChainTwice, ChainCommitOutside, ChainCatchOutside,
                ChainEndTwice, ChainThrowAfterEnd, ChainNested, ChainRetry,
                ChainRecover}

\* The routes the second, concurrent request takes.
ConcurrentShapes == {ChainBasic, ChainNoEnd}

\* The routes of the two requests of a run: request A takes any route, request B takes
\* begin(); handler; end(), or the route without end() next to a request A on one of
\* the two.
Routes ==
  {f \in [Req -> ChainShapes] :
     /\ f["B"] \in ConcurrentShapes
     /\ f["B"] = ChainBasic \/ f["A"] \in ConcurrentShapes}

----------------------------------------------------------------------------
(* The mutable state as one record, so that a synchronous call chain          *)
(* (next() -> handler -> emit -> listener -> ...) is one function on it.     *)

Cur == [idx |-> idx, reqTid |-> reqTid, reqTx |-> reqTx, resp |-> resp, resL |-> resL,
        running |-> running, scope |-> scope, registry |-> registry, ctxs |-> ctxs,
        tx |-> tx, db |-> db, trace |-> trace]

\* The state after a call chain: m is bound once, as the value the chain returns.
Becomes(m) ==
  \E n \in {m} :
    /\ idx' = n.idx
    /\ reqTid' = n.reqTid
    /\ reqTx' = n.reqTx
    /\ resp' = n.resp
    /\ resL' = n.resL
    /\ running' = n.running
    /\ scope' = n.scope
    /\ registry' = n.registry
    /\ ctxs' = n.ctxs
    /\ tx' = n.tx
    /\ db' = n.db
    /\ trace' = n.trace

\* History: one entry of trace[r].
\*   "run":  handler `who` at stage `at` was invoked with error `arg`; c: req.transaction
\*           as the handler finds it; pend: the request had a Pending scope at that moment
\*   "next": `who` at stage `at` called next(arg)
\*   "sig":  a terminal signal reached scope `c` through `who`; pend: the scope was Pending
\*   "tail": the route's stack was exhausted and done(arg) handed over to the application
\*   "open": begin() registered scope `c` and holds its promise
\*   "res":  the response emitted the event `who` ("finish" or "error")
Ev(t, who, at, c, arg, pend) ==
  [t |-> t, who |-> who, at |-> at, c |-> c, arg |-> arg, pend |-> pend]

Log(m, r, e) == [m EXCEPT !.trace[r] = Append(@, e)]

\* The attempt a scope is in, and whether it is Pending: its promise is not settled.
CtxOf(m, s) == <<s, m.scope[s].att>>

IsPending(m, c) == c \in DOMAIN m.ctxs /\ m.ctxs[c].promise = "pending"

HasPending(m, r) ==
  \E s \in 1..Len(m.scope) : m.scope[s].req = r /\ IsPending(m, CtxOf(m, s))

\* Mutant of ResOff: only the finish listener is removed.
ResOffFinishOnly(m, c) ==
  LET r == m.scope[c[1]].req
  IN [m EXCEPT !.resL[r] = SelectSeq(@, LAMBDA l : l.c # c \/ l.ev = "error")]

\* res.off("finish", autoCommit).off("error", autoRollback) for the listeners of c
ResOff(m, c) ==
  LET r == m.scope[c[1]].req
  IN [m EXCEPT !.resL[r] = SelectSeq(@, LAMBDA l : l.c # c)]

----------------------------------------------------------------------------
(* TransactionContext: the one-shot resolution of a scope                   *)

\* Mutant of OnCommit: the resolution overrides a promise that is already settled.
OnCommitOverrides(m, c) ==
  LET m1 == ResOff(m, c)
  IN [m1 EXCEPT !.ctxs[c].promise = "resolved"]

\* The listener begin() registers with .once("commit", ...): it is removed when the
\* event fires, removes the response listeners and resolves the held promise.  A
\* promise settles once: resolve() on a settled promise changes nothing.
OnCommit(m, c) ==
  LET m1 == ResOff(m, c)
  IN [m1 EXCEPT !.ctxs[c].promise = IF @ = "pending" THEN "resolved" ELSE @]

\* Mutant of OnRollback: the rejection overrides a promise that is already settled.
OnRollbackOverrides(m, c, e) ==
  LET m1 == ResOff(m, c)
  IN [m1 EXCEPT !.ctxs[c].promise = "rejected", !.ctxs[c].reason = e]

\* The listener registered with .once("rollback", ...): reject(error).
OnRollback(m, c, e) ==
  LET m1 == ResOff(m, c)
  IN [m1 EXCEPT !.ctxs[c].promise = IF @ = "pending" THEN "rejected" ELSE @,
                !.ctxs[c].reason = IF m.ctxs[c].promise = "pending" THEN e ELSE @]

\* TransactionContext.commit(): emit("commit").  via names the caller.
TCCommit(m, c, via) ==
  LET r == m.scope[c[1]].req
      m1 == Log(m, r, Ev("sig", via, 0, c, NoErr, IsPending(m, c)))
  IN IF m1.ctxs[c].onceCommit
     THEN OnCommit([m1 EXCEPT !.ctxs[c].onceCommit = FALSE], c)
     ELSE m1

\* TransactionContext.rollback(error): this.error = error; emit("rollback", error).
TCRollback(m, c, e, via) ==
  LET r == m.scope[c[1]].req
      m1 == Log(m, r, Ev("sig", via, 0, c, e, IsPending(m, c)))
      m2 == [m1 EXCEPT !.ctxs[c].error = e]
  IN IF m2.ctxs[c].onceRollback
     THEN OnRollback([m2 EXCEPT !.ctxs[c].onceRollback = FALSE], c, e)
     ELSE m2

\* Mutant of AutoCommit: the finish listener is bound to rollback.
AutoCommitRollsBack(m, c) == TCRollback(m, c, Err("ResponseError", 0), "finish")

\* The listeners begin() puts on the response: autoCommit on "finish", and
\* autoRollback on "error", which is bound to transactionContext.commit as well.
AutoCommit(m, c) == TCCommit(m, c, "finish")

AutoRollback(m, c) == TCCommit(m, c, "error")

\* res.emit(ev): every listener registered for ev when the event fires is called, in
\* registration order.
RECURSIVE EmitRes(_, _, _)
EmitRes(m, ls, ev) ==
  IF ls = <<>> THEN m
  ELSE LET l == Head(ls)
           m1 == IF l.ev # ev THEN m
                 ELSE IF ev = "finish" THEN AutoCommit(m, l.c)
                 ELSE AutoRollback(m, l.c)
       IN EmitRes(m1, Tail(ls), ev)

----------------------------------------------------------------------------
(* The route: next(), and the handlers it invokes synchronously             *)

\* The application behind the route: done(err) reaches the application's error
\* handler, done() the default not-found handler; either answers the request if no
\* answer has been sent yet.
AppTail(m, r, e) ==
  LET m1 == Log(m, r, Ev("tail", "app", 0, NoCtx, e, HasPending(m, r)))
  IN [m1 EXCEPT !.resp[r] = IF @ = "open" THEN "ended" ELSE @]

RECURSIVE Dispatch(_, _, _)

\* next(e) called by `who` at stage `at`.
CallNext(m, r, who, at, e) ==
  Dispatch(Log(m, r, Ev("next", who, at, NoCtx, e, HasPending(m, r))), r, e)

\* Mutant of BeginHandler: the handler does not check this.pool.
BeginHandlerUnchecked(m, r, i) ==
  LET m1 == Log(m, r, Ev("run", "begin", i, m.reqTx[r], NoErr, HasPending(m, r)))
      st == chain[r][i]
  IN [m1 EXCEPT !.scope = Append(@, [req |-> r, stage |-> i, level |-> st.level,
                                     retry |-> st.retry, att |-> 1, pc |-> "opening"])]

\* The begin() handler up to its first await: the pool check, randomUUID(), and the
\* call of pool.transaction.
BeginHandler(m, r, i) ==
  LET m1 == Log(m, r, Ev("run", "begin", i, m.reqTx[r], NoErr, HasPending(m, r)))
      st == chain[r][i]
  IN IF ~pool
     THEN CallNext(m1, r, "begin", i, Err("UndefinedPoolError", i))
     ELSE [m1 EXCEPT !.scope = Append(@, [req |-> r, stage |-> i, level |-> st.level,
                                          retry |-> st.retry, att |-> 1,
                                          pc |-> "opening"])]

\* Mutant of CommitHandler: the handler signals a rollback instead of a commit.
CommitHandlerRollsBack(m, r, i) ==
  LET m1 == Log(m, r, Ev("run", "commit", i, m.reqTx[r], NoErr, HasPending(m, r)))
      tid == m.reqTid[r]
  IN IF tid = 0
     THEN CallNext(m1, r, "commit", i, Err("TransactionOutOfBoundsError", i))
     ELSE IF tid \notin DOMAIN m.registry
     THEN CallNext(m1, r, "layer", i, Err("TypeError", i))
     ELSE TCRollback(m1, m.registry[tid], Err("AppError", i), "commit")

\* Mutant of CommitHandler: the controller keeps one current TransactionContext, the
\* one registered last, and commit() signals it whichever request is being handled.
CommitHandlerShared(m, r, i) ==
  LET m1 == Log(m, r, Ev("run", "commit", i, m.reqTx[r], NoErr, HasPending(m, r)))
      tid == m.reqTid[r]
  IN IF tid = 0
     THEN CallNext(m1, r, "commit", i, Err("TransactionOutOfBoundsError", i))
     ELSE IF DOMAIN m.registry = {}
     THEN CallNext(m1, r, "layer", i, Err("TypeError", i))
     ELSE LET last == CHOOSE u \in DOMAIN m.registry : \A v \in DOMAIN m.registry : v <= u
          IN TCCommit(m1, m.registry[last], "commit")

\* The commit() handler.  Reading a registry entry that does not exist throws a
\* TypeError, which the route catches and passes to next.
CommitHandler(m, r, i) ==
  LET m1 == Log(m, r, Ev("run", "commit", i, m.reqTx[r], NoErr, HasPending(m, r)))
      tid == m.reqTid[r]
  IN IF tid = 0
     THEN CallNext(m1, r, "commit", i, Err("TransactionOutOfBoundsError", i))
     ELSE IF tid \notin DOMAIN m.registry
     THEN CallNext(m1, r, "layer", i, Err("TypeError", i))
     ELSE TCCommit(m1, m.registry[tid], "commit")

\* Mutant of CatchErrorHandler: the handler only forwards the error and never signals
\* the scope.
CatchErrorHandlerForwards(m, r, i, e) ==
  LET m1 == Log(m, r, Ev("run", "catchError", i, m.reqTx[r], e, HasPending(m, r)))
  IN CallNext(m1, r, "catchError", i, e)

\* The catchError() error handler.
CatchErrorHandler(m, r, i, e) ==
  LET m1 == Log(m, r, Ev("run", "catchError", i, m.reqTx[r], e, HasPending(m, r)))
      tid == m.reqTid[r]
  IN IF tid # 0
     THEN IF tid \notin DOMAIN m.registry
          THEN CallNext(m1, r, "layer", i, Err("TypeError", i))
          ELSE TCRollback(m1, m.registry[tid], e, "catchError")
     ELSE CallNext(m1, r, "catchError", i, e)

\* A user handler, up to its return or its first await.
UserHandler(m, r, i) ==
  LET m1 == Log(m, r, Ev("run", "handler", i, m.reqTx[r], NoErr, HasPending(m, r)))
      st == chain[r][i]
  IN CASE st.mode = "async" -> [m1 EXCEPT !.running[r] = @ \cup {i}]
       [] st.mode = "next" -> CallNext(m1, r, "handler", i, NoErr)
       [] st.mode = "throw" -> CallNext(m1, r, "handler", i, Err("AppError", i))

\* An error handler of the application, invoked with the error e: next().
RecoverHandler(m, r, i, e) ==
  LET m1 == Log(m, r, Ev("run", "recover", i, m.reqTx[r], e, HasPending(m, r)))
  IN CallNext(m1, r, "recover", i, NoErr)

\* Express's next(err) of a route: take the next layer; with an error, skip the
\* layers that are not error handlers; without, skip the error handlers.
Dispatch(m, r, e) ==
  LET i == m.idx[r] + 1
  IN IF i > Len(chain[r]) THEN AppTail(m, r, e)
     ELSE LET m1 == [m EXCEPT !.idx[r] = i]
              k == chain[r][i].k
          IN IF e # NoErr
             THEN IF k = "catchError" THEN CatchErrorHandler(m1, r, i, e)
                  ELSE IF k = "recover" THEN RecoverHandler(m1, r, i, e)
                  ELSE Dispatch(m1, r, e)
             ELSE CASE k \in {"catchError", "recover"} -> Dispatch(m1, r, e)
                    [] k = "begin" -> BeginHandler(m1, r, i)
                    [] k = "commit" -> CommitHandler(m1, r, i)
                    [] k = "handler" -> UserHandler(m1, r, i)

----------------------------------------------------------------------------
(* Initial state *)

Init ==
  /\ chain \in Routes
  /\ idx = [r \in Req |-> 0]
  /\ reqTid = [r \in Req |-> 0]
  /\ reqTx = [r \in Req |-> NoCtx]
  /\ resp = [r \in Req |-> "open"]
  /\ resL = [r \in Req |-> <<>>]
  /\ running = [r \in Req |-> {}]
  /\ scope = <<>>
  /\ registry = <<>>
  /\ ctxs = <<>>
  /\ tx = <<>>
  /\ db = {}
  /\ conflicts = 0
  /\ pool \in BOOLEAN
  \* createMiddleware is given a pool here, which passes the check with either Slonik.
  /\ asyncCreatePool = TRUE
  /\ LET o == IF pool THEN CreateMiddleware(NoStatics, P1)
              ELSE GetOrCreateContext(NoStatics, Undefined)
     IN /\ instance = o.g.instance
        /\ controllers = o.g.controllers
        /\ calls = <<Call(IF pool THEN "createMiddleware" ELSE "getOrCreateContext",
                          IF pool THEN P1 ELSE Undefined, o)>>
  /\ trace = [r \in Req |-> <<>>]

----------------------------------------------------------------------------
(* Actions *)

\* Request r arrives: the router dispatches the route, which calls next().
Arrive(r) ==
  /\ trace[r] = <<>>
  /\ Becomes(CallNext(Cur, r, "route", 0, NoErr))
  /\ UNCHANGED <<asyncCreatePool, instance, controllers, calls, chain, conflicts, pool>>

Stmt(op, arg) == [op |-> op, arg |-> arg]

\* Mutant of TxStart: the callback sets READ COMMITTED whatever level begin() was given.
TxStartReadCommitted(s) ==
  /\ s \in 1..Len(scope)
  /\ scope[s].pc = "opening"
  /\ LET c == CtxOf(Cur, s)
     IN tx' = (c :> [level |-> READ_COMMITTED,
                     stmts |-> <<Stmt("START TRANSACTION", "-"),
                                 Stmt("SET TRANSACTION ISOLATION LEVEL", READ_COMMITTED)>>,
                     wrote |-> FALSE,
                     state |-> "open"]) @@ tx
  /\ scope' = [scope EXCEPT ![s].pc = "iso"]
  /\ UNCHANGED <<asyncCreatePool, instance, controllers, calls, chain, idx, reqTid, reqTx, resp, resL,
                 running, registry, ctxs, db, conflicts, pool, trace>>

\* pool.transaction starts an attempt: START TRANSACTION, then the callback runs up
\* to its first await, the SET TRANSACTION ISOLATION LEVEL query.
TxStart(s) ==
  /\ s \in 1..Len(scope)
  /\ scope[s].pc = "opening"
  /\ LET c == CtxOf(Cur, s)
     IN tx' = (c :> [level |-> scope[s].level,
                     stmts |-> <<Stmt("START TRANSACTION", "-"),
                                 Stmt("SET TRANSACTION ISOLATION LEVEL", scope[s].level)>>,
                     wrote |-> FALSE,
                     state |-> "open"]) @@ tx
  /\ scope' = [scope EXCEPT ![s].pc = "iso"]
  /\ UNCHANGED <<asyncCreatePool, instance, controllers, calls, chain, idx, reqTid, reqTx, resp, resL, running, registry, ctxs, db,
                 conflicts, pool, trace>>

\* Mutant of Publish: the callback does not hold the transaction open; it returns
\* after next(), as if the promise were resolved.
PublishNotHeld(s) ==
  /\ s \in 1..Len(scope)
  /\ scope[s].pc = "iso"
  /\ LET c == CtxOf(Cur, s)
         r == scope[s].req
         m0 == Log(Cur, r, Ev("open", "begin", scope[s].stage, c, NoErr, HasPending(Cur, r)))
         m1 == [m0 EXCEPT
                  !.ctxs = (c :> [onceCommit |-> TRUE, onceRollback |-> TRUE,
                                  promise |-> "resolved", error |-> NoErr,
                                  reason |-> NoErr]) @@ @,
                  !.registry = (s :> c) @@ @,
                  !.reqTid[r] = s,
                  !.reqTx[r] = c,
                  !.resL[r] = @ \o <<[ev |-> "finish", c |-> c], [ev |-> "error", c |-> c]>>,
                  !.scope[s].pc = "held"]
     IN Becomes(CallNext(m1, r, "begin-held", scope[s].stage, NoErr))
  /\ UNCHANGED <<asyncCreatePool, instance, controllers, calls, chain, conflicts, pool>>

\* Mutant of Publish: the callback calls next() before it publishes req.transactionId
\* and req.transaction.
PublishAfterNext(s) ==
  /\ s \in 1..Len(scope)
  /\ scope[s].pc = "iso"
  /\ LET c == CtxOf(Cur, s)
         r == scope[s].req
         m0 == Log(Cur, r, Ev("open", "begin", scope[s].stage, c, NoErr, HasPending(Cur, r)))
         m1 == [m0 EXCEPT
                  !.ctxs = (c :> [onceCommit |-> TRUE, onceRollback |-> TRUE,
                                  promise |-> "pending", error |-> NoErr,
                                  reason |-> NoErr]) @@ @,
                  !.registry = (s :> c) @@ @,
                  !.resL[r] = @ \o <<[ev |-> "finish", c |-> c], [ev |-> "error", c |-> c]>>,
                  !.scope[s].pc = "held"]
         m2 == CallNext(m1, r, "begin-held", scope[s].stage, NoErr)
     IN Becomes([m2 EXCEPT !.reqTid[r] = s, !.reqTx[r] = c])
  /\ UNCHANGED <<asyncCreatePool, instance, controllers, calls, chain, conflicts, pool>>

\* The callback after the isolation level query: register the TransactionContext,
\* publish req.transactionId and req.transaction, listen to the response, hold the
\* promise, and call next() while the transaction is held open.
Publish(s) ==
  /\ s \in 1..Len(scope)
  /\ scope[s].pc = "iso"
  /\ LET c == CtxOf(Cur, s)
         r == scope[s].req
         m0 == Log(Cur, r, Ev("open", "begin", scope[s].stage, c, NoErr, HasPending(Cur, r)))
         m1 == [m0 EXCEPT
                  !.ctxs = (c :> [onceCommit |-> TRUE, onceRollback |-> TRUE,
                                  promise |-> "pending", error |-> NoErr,
                                  reason |-> NoErr]) @@ @,
                  !.registry = (s :> c) @@ @,
                  !.reqTid[r] = s,
                  !.reqTx[r] = c,
                  !.resL[r] = @ \o <<[ev |-> "finish", c |-> c], [ev |-> "error", c |-> c]>>,
                  !.scope[s].pc = "held"]
     IN Becomes(CallNext(m1, r, "begin-held", scope[s].stage, NoErr))
  /\ UNCHANGED <<asyncCreatePool, instance, controllers, calls, chain, conflicts, pool>>

\* Mutant of Cleanup: the registry entry is not deleted.
CleanupKeepsEntry(m, s) ==
  LET r == m.scope[s].req
  IN [m EXCEPT !.reqTx[r] = NoCtx,
               !.reqTid[r] = 0,
               !.scope[s].pc = "done"]

\* finally { delete req.transaction; delete req.transactionId;
\*           delete this.transactionContext[transactionId] }
Cleanup(m, s) ==
  LET r == m.scope[s].req
  IN [m EXCEPT !.reqTx[r] = NoCtx,
               !.reqTid[r] = 0,
               !.registry = [k \in DOMAIN @ \ {s} |-> @[k]],
               !.scope[s].pc = "done"]

\* The pool ends the attempt's transaction with COMMIT or ROLLBACK.
EndTx(m, c, op) ==
  [m EXCEPT !.tx[c].stmts = Append(@, Stmt(op, "-")),
            !.tx[c].state = IF op = "COMMIT" THEN "committed" ELSE "rolledback",
            !.db = IF op = "COMMIT" /\ m.tx[c].wrote THEN @ \cup {c} ELSE @]

\* The held promise resolved: the callback returns, the pool commits,
\* pool.transaction resolves, and begin() calls next() and cleans up.
BeginCommitted(s) ==
  /\ s \in 1..Len(scope)
  /\ scope[s].pc = "held"
  /\ ctxs[CtxOf(Cur, s)].promise = "resolved"
  /\ LET m1 == EndTx(Cur, CtxOf(Cur, s), "COMMIT")
         m2 == CallNext(m1, scope[s].req, "begin", scope[s].stage, NoErr)
     IN Becomes(Cleanup(m2, s))
  /\ UNCHANGED <<asyncCreatePool, instance, controllers, calls, chain, conflicts, pool>>

\* Mutant of Retryable: the pool retries a serialization failure whatever the limit.
RetryableAlways(s) == ctxs[CtxOf(Cur, s)].reason.name = "Conflict"

\* Whether the pool runs the callback again: the rejection is a serialization failure
\* and fewer than retryLimit retries have been made.
Retryable(s) ==
  /\ ctxs[CtxOf(Cur, s)].reason.name = "Conflict"
  /\ scope[s].att <= scope[s].retry

\* The held promise rejected with a serialization failure and a retry is left: the
\* pool rolls back and starts the next attempt.
TxRetry(s) ==
  /\ s \in 1..Len(scope)
  /\ scope[s].pc = "held"
  /\ ctxs[CtxOf(Cur, s)].promise = "rejected"
  /\ Retryable(s)
  /\ LET m1 == EndTx(Cur, CtxOf(Cur, s), "ROLLBACK")
     IN Becomes([m1 EXCEPT !.scope[s].att = @ + 1, !.scope[s].pc = "opening"])
  /\ UNCHANGED <<asyncCreatePool, instance, controllers, calls, chain, conflicts, pool>>

\* The held promise rejected and the pool gives up: it rolls back, pool.transaction
\* rejects, and begin() calls next(error) and cleans up.
BeginFailed(s) ==
  /\ s \in 1..Len(scope)
  /\ scope[s].pc = "held"
  /\ ctxs[CtxOf(Cur, s)].promise = "rejected"
  /\ ~Retryable(s)
  /\ LET c == CtxOf(Cur, s)
         m1 == EndTx(Cur, c, "ROLLBACK")
         m2 == CallNext(m1, scope[s].req, "begin", scope[s].stage, ctxs[c].reason)
     IN Becomes(Cleanup(m2, s))
  /\ UNCHANGED <<asyncCreatePool, instance, controllers, calls, chain, conflicts, pool>>

\* A running handler writes a row through req.transaction.
HandlerQuery(r, i) ==
  /\ i \in running[r]
  /\ reqTx[r] # NoCtx
  /\ IsPending(Cur, reqTx[r])
  /\ ~tx[reqTx[r]].wrote
  /\ tx' = [tx EXCEPT ![reqTx[r]].wrote = TRUE,
                      ![reqTx[r]].stmts = Append(@, Stmt("INSERT", r))]
  /\ UNCHANGED <<asyncCreatePool, instance, controllers, calls, chain, idx, reqTid, reqTx, resp, resL, running, scope, registry, ctxs,
                 db, conflicts, pool, trace>>

\* The rows a query through the transaction c sees: the committed rows and the
\* transaction's own write (no dirty reads, at every isolation level of PostgreSQL).
Visible(m, c) == m.db \cup (IF m.tx[c].wrote THEN {c} ELSE {})

\* Mutant of Handle: the handle is kept in one place for all requests, and a handler
\* finds the one registered last.
HandleShared(m, r) ==
  IF DOMAIN m.registry = {} THEN NoCtx
  ELSE m.registry[CHOOSE u \in DOMAIN m.registry : \A v \in DOMAIN m.registry : v <= u]

\* req.transaction as a handler of request r reads it.
Handle(m, r) == m.reqTx[r]

\* The writes of the other transactions that are not committed (history: what a dirty
\* read through c would return).
Uncommitted(m, c) ==
  {x \in DOMAIN m.tx : x # c /\ m.tx[x].wrote /\ m.tx[x].state = "open"}

\* A running handler reads the rows through req.transaction.  The statement records who
\* read, the rows returned, and the uncommitted writes of others at that moment.
HandlerRead(r, i) ==
  /\ i \in running[r]
  /\ LET c == Handle(Cur, r)
     IN /\ c # NoCtx
        /\ IsPending(Cur, c)
        /\ \A j \in 1..Len(tx[c].stmts) : tx[c].stmts[j].op # "SELECT"
        /\ tx' = [tx EXCEPT ![c].stmts =
                    Append(@, Stmt("SELECT", [by |-> r, rows |-> Visible(Cur, c),
                                              dirty |-> Uncommitted(Cur, c)]))]
  /\ UNCHANGED <<asyncCreatePool, instance, controllers, calls, chain, idx, reqTid, reqTx, resp, resL, running, scope, registry, ctxs,
                 db, conflicts, pool, trace>>

\* A running handler answers the request: res.json(...) / res.end().
HandlerSend(r, i) ==
  /\ i \in running[r]
  /\ resp[r] = "open"
  /\ resp' = [resp EXCEPT ![r] = "ended"]
  /\ UNCHANGED <<asyncCreatePool, instance, controllers, calls, chain, idx, reqTid, reqTx, resL, running, scope, registry, ctxs, tx, db,
                 conflicts, pool, trace>>

\* A running handler calls next().
HandlerNext(r, i) ==
  /\ i \in running[r]
  /\ Becomes(CallNext([Cur EXCEPT !.running[r] = @ \ {i}], r, "handler", i, NoErr))
  /\ UNCHANGED <<asyncCreatePool, instance, controllers, calls, chain, conflicts, pool>>

\* A running handler reports an error of its own: next(error).
HandlerError(r, i) ==
  /\ i \in running[r]
  /\ Becomes(CallNext([Cur EXCEPT !.running[r] = @ \ {i}], r, "handler", i,
                      Err("AppError", i)))
  /\ UNCHANGED <<asyncCreatePool, instance, controllers, calls, chain, conflicts, pool>>

\* A query of a running handler fails with a serialization failure, and the handler
\* reports it: next(error).
HandlerConflict(r, i) ==
  /\ i \in running[r]
  /\ conflicts < MaxConflicts
  /\ reqTx[r] # NoCtx
  /\ IsPending(Cur, reqTx[r])
  /\ conflicts' = conflicts + 1
  /\ Becomes(CallNext([Cur EXCEPT !.running[r] = @ \ {i}], r, "handler", i,
                      Err("Conflict", i)))
  /\ UNCHANGED <<asyncCreatePool, instance, controllers, calls, chain, pool>>

\* The response has been sent: res emits "finish".
ResFinish(r) ==
  /\ resp[r] = "ended"
  /\ LET m1 == Log(Cur, r, Ev("res", "finish", 0, NoCtx, NoErr, HasPending(Cur, r)))
     IN Becomes(EmitRes([m1 EXCEPT !.resp[r] = "finished"], resL[r], "finish"))
  /\ UNCHANGED <<asyncCreatePool, instance, controllers, calls, chain, conflicts, pool>>

\* The response fails: res emits "error" (with no listener the event would be thrown).
ResError(r) ==
  /\ resp[r] \in {"open", "ended"}
  /\ \E j \in 1..Len(resL[r]) : resL[r][j].ev = "error"
  /\ LET m1 == Log(Cur, r, Ev("res", "error", 0, NoCtx, NoErr, HasPending(Cur, r)))
     IN Becomes(EmitRes([m1 EXCEPT !.resp[r] = "errored"], resL[r], "error"))
  /\ UNCHANGED <<asyncCreatePool, instance, controllers, calls, chain, conflicts, pool>>

Next ==
  \/ \E r \in Req : Arrive(r)
  \/ \E s \in 1..Len(scope) : TxStart(s)
  \/ \E s \in 1..Len(scope) : Publish(s)
  \/ \E s \in 1..Len(scope) : BeginCommitted(s)
  \/ \E s \in 1..Len(scope) : TxRetry(s)
  \/ \E s \in 1..Len(scope) : BeginFailed(s)
  \/ \E r \in Req : \E i \in running[r] : HandlerQuery(r, i)
  \/ \E r \in Req : \E i \in running[r] : HandlerSend(r, i)
  \/ \E r \in Req : \E i \in running[r] : HandlerNext(r, i)
  \/ \E r \in Req : \E i \in running[r] : HandlerError(r, i)
  \/ \E r \in Req : \E i \in running[r] : HandlerConflict(r, i)
  \/ \E r \in Req : ResFinish(r)
  \/ \E r \in Req : ResError(r)

Spec == Init /\ [][Next]_vars

\* The scenario of the dirty-read test: two concurrent requests on routes that begin()
\* at READ COMMITTED, whose handlers write and read the row.
InitReads ==
  /\ Init
  /\ chain \in [Req -> ConcurrentShapes]
  /\ pool

NextReads ==
  \/ Next
  \/ \E r \in Req : \E i \in running[r] : HandlerRead(r, i)

SpecReads == InitReads /\ [][NextReads]_vars

\* The process before any controller exists and before any request arrives: the calls
\* an application makes to set up its routes.
InitRegistry ==
  /\ chain = [r \in Req |-> ChainBasic]
  /\ idx = [r \in Req |-> 0]
  /\ reqTid = [r \in Req |-> 0]
  /\ reqTx = [r \in Req |-> NoCtx]
  /\ resp = [r \in Req |-> "open"]
  /\ resL = [r \in Req |-> <<>>]
  /\ running = [r \in Req |-> {}]
  /\ scope = <<>>
  /\ registry = <<>>
  /\ ctxs = <<>>
  /\ tx = <<>>
  /\ db = {}
  /\ conflicts = 0
  /\ pool = FALSE
  /\ asyncCreatePool \in BOOLEAN
  /\ instance = NoStatics.instance
  /\ controllers = NoStatics.controllers
  /\ calls = <<>>
  /\ trace = [r \in Req |-> <<>>]

Returns(o) ==
  /\ instance' = o.g.instance
  /\ controllers' = o.g.controllers
  /\ pool' = IF o.g.instance = 0 THEN FALSE
             ELSE o.g.controllers[o.g.instance].pool # Undefined
  /\ UNCHANGED <<asyncCreatePool, chain, idx, reqTid, reqTx, resp, resL, running, scope,
                 registry, ctxs, tx, db, conflicts, trace>>

\* The application calls createMiddleware(a).
CallCreateMiddleware(a) ==
  /\ Len(calls) < MaxCalls
  /\ LET o == CreateMiddleware(Statics, a)
     IN Returns(o) /\ calls' = Append(calls, Call("createMiddleware", a, o))

\* The application calls RequestTransactionContext.getOrCreateContext(a).
CallGetOrCreateContext(a) ==
  /\ Len(calls) < MaxCalls
  /\ LET o == GetOrCreateContext(Statics, a)
     IN Returns(o) /\ calls' = Append(calls, Call("getOrCreateContext", a, o))

\* A request runs begin() of the controller that call k returned, up to the call of
\* this.pool.transaction: recorded are the pool the transaction is opened on, the
\* controller, and the error begin() passes to next when there is no pool or the
\* object in its place has no transaction method.
CallBegin(k) ==
  /\ Len(calls) < MaxCalls
  /\ k \in 1..Len(calls)
  /\ calls[k].err = "none"
  /\ calls[k].fn # "begin"
  /\ LET n == calls[k].ret
         p == controllers[n].pool
         err == IF p = Undefined THEN "UndefinedPoolError"
                ELSE IF "transaction" \notin p.methods THEN "TypeError"
                ELSE "none"
     IN calls' = Append(calls, [fn |-> "begin", arg |-> p, ret |-> n, err |-> err])
  /\ UNCHANGED <<asyncCreatePool, instance, controllers, pool, chain, idx, reqTid, reqTx, resp, resL,
                 running, scope, registry, ctxs, tx, db, conflicts, trace>>

NextRegistry ==
  \/ \E a \in Args : CallCreateMiddleware(a)
  \/ \E a \in Args : CallGetOrCreateContext(a)
  \/ \E k \in 1..Len(calls) : CallBegin(k)

SpecRegistry == InitRegistry /\ [][NextRegistry]_vars

----------------------------------------------------------------------------
(* Fair delivery of events *)

\* The runs in which the pool is set, request B takes begin(); handler; end() and
\* request A one of the routes below.
FairShapes == {ChainBasic, ChainNoEnd}

InitFair ==
  /\ Init
  /\ pool
  /\ chain["B"] = ChainBasic
  /\ chain["A"] \in FairShapes

\* A step of the event loop that no handler has to take: a query of the callback
\* returns, or the held promise has been settled and its continuation runs.
Deliver ==
  \E s \in 1..Len(scope) :
    TxStart(s) \/ Publish(s) \/ BeginCommitted(s) \/ TxRetry(s) \/ BeginFailed(s)

\* The response that has been ended is flushed and emits finish.
Flush == \E r \in Req : ResFinish(r)

\* The event loop runs every continuation that is ready, and an ended response
\* finishes; what the user handlers do, and when, is not constrained.
SpecFair == InitFair /\ [][Next]_vars /\ WF_vars(Deliver) /\ WF_vars(Flush)

----------------------------------------------------------------------------
(* Vocabulary of the claims *)

ScopesOf(r) == {s \in 1..Len(scope) : scope[s].req = r}

\* The attempts of scope s that the pool has started.
Attempts(s) == {c \in DOMAIN tx : c[1] = s}

Events(r, t) == {k \in 1..Len(trace[r]) : trace[r][k].t = t}

\* A user handler of r reported an error: it threw, or called next(err).
ErrorReported(r) ==
  \E k \in Events(r, "next") : trace[r][k].who = "handler" /\ trace[r][k].arg # NoErr

\* The chain of r ran to its end: the route handed over to the application.
TailReached(r) == Events(r, "tail") # {}

Count(q, op) == Len(SelectSeq(q, LAMBDA x : x.op = op))

\* Scope (attempt) c of request r was Pending when event k of trace[r] was logged: it
\* had been opened and no terminal signal had reached it.
PendingAt(r, c, k) ==
  \E j \in Events(r, "open") :
    /\ j < k
    /\ trace[r][j].c = c
    /\ \A i \in Events(r, "sig") : (j < i /\ i < k) => trace[r][i].c # c

\* Event k of trace[r]: a user handler reported an error while r had a Pending scope.
ErrorWhilePending(r, k) ==
  /\ k \in Events(r, "next")
  /\ trace[r][k].who = "handler"
  /\ trace[r][k].arg # NoErr
  /\ trace[r][k].pend

\* The attempt c is over: begin() has finished, or the pool started a later attempt.
AttemptOver(c) == scope[c[1]].pc = "done" \/ scope[c[1]].att > c[2]

----------------------------------------------------------------------------
(* Claims *)

\* C1: in a chain begin(); handler; end() in which no handler reports an error, the
\* callback passed to pool.transaction runs once and is never rejected, and once
\* begin() has finished or the chain has run to its end, the transaction has been
\* committed with exactly one COMMIT and the row written through req.transaction is
\* visible.
C1_CommitWithoutError ==
  \A r \in Req : (chain[r] = ChainBasic /\ ~ErrorReported(r)) =>
    \A s \in ScopesOf(r) :
      /\ scope[s].att = 1
      /\ \A c \in DOMAIN ctxs : c[1] = s => ctxs[c].promise # "rejected"
      /\ \A c \in Attempts(s) : tx[c].state # "rolledback"
      /\ (scope[s].pc = "done" \/ TailReached(r)) =>
           /\ tx[<<s, 1>>].state = "committed"
           /\ Count(tx[<<s, 1>>].stmts, "COMMIT") = 1
           /\ tx[<<s, 1>>].wrote => <<s, 1>> \in db

C1_Witness ==
  \E r \in Req : \E s \in ScopesOf(r) :
    /\ chain[r] = ChainBasic /\ ~ErrorReported(r)
    /\ scope[s].pc = "done" /\ TailReached(r)
    /\ \E k \in Events(r, "sig") : trace[r][k].who = "commit" /\ trace[r][k].pend
    /\ <<s, 1>> \in db

\* C2: in a chain begin(); handler; end(), when the handler reports an error while the
\* scope is Pending (before any commit signal), that scope is rejected with the very
\* error, its transaction is never committed and ends with one ROLLBACK, and the row
\* written through req.transaction never becomes visible.
C2_RollbackOnError ==
  \A r \in Req : chain[r] = ChainBasic =>
    \A k \in 1..Len(trace[r]) : ErrorWhilePending(r, k) =>
      /\ \E c \in DOMAIN ctxs : PendingAt(r, c, k)
      /\ \A c \in DOMAIN ctxs : PendingAt(r, c, k) =>
           /\ ctxs[c].promise = "rejected"
           /\ ctxs[c].reason = trace[r][k].arg
           /\ Count(tx[c].stmts, "COMMIT") = 0
           /\ tx[c].state # "committed"
           /\ c \notin db
           /\ AttemptOver(c) =>
                tx[c].state = "rolledback" /\ Count(tx[c].stmts, "ROLLBACK") = 1

C2_Witness ==
  \E r \in Req : \E k \in 1..Len(trace[r]) : \E c \in DOMAIN ctxs :
    /\ chain[r] = ChainBasic
    /\ ErrorWhilePending(r, k)
    /\ PendingAt(r, c, k)
    /\ tx[c].wrote
    /\ tx[c].state = "rolledback"
    /\ scope[c[1]].pc = "done"
    /\ TailReached(r)

\* C3: when the response emits finish while a scope of the request is Pending, that
\* event signals the scope and resolves it as committed: the scope is never rolled
\* back, and once the attempt is over its transaction is committed and its row visible.
C3_AutoCommitOnFinish ==
  \A r \in Req : \A k \in Events(r, "res") : trace[r][k].who = "finish" =>
    \A c \in DOMAIN ctxs : PendingAt(r, c, k) =>
      /\ \E j \in Events(r, "sig") :
           /\ j > k
           /\ trace[r][j].c = c
           /\ trace[r][j].who = "finish"
           /\ trace[r][j].pend
      /\ ctxs[c].promise = "resolved"
      /\ Count(tx[c].stmts, "ROLLBACK") = 0
      /\ AttemptOver(c) => (tx[c].state = "committed" /\ (tx[c].wrote => c \in db))

C3_Witness ==
  \E r \in Req : \E k \in Events(r, "res") : \E c \in DOMAIN ctxs :
    /\ chain[r] = ChainNoEnd
    /\ trace[r][k].who = "finish"
    /\ PendingAt(r, c, k)
    /\ scope[c[1]].pc = "done"
    /\ c \in db

\* The terminal signals that reached scope c, as positions in the trace of its request.
Signals(c) ==
  LET r == scope[c[1]].req IN {k \in Events(r, "sig") : trace[r][k].c = c}

\* C4: a scope is resolved by the first terminal signal that reaches it and by no other:
\* with no signal it is Pending; otherwise only the first signal found it Pending, the
\* promise is resolved if that signal was a commit and rejected with its error if it
\* was a rollback, and the transaction is ended at most once, in agreement with it.
C4_FirstSignalWins ==
  \A c \in DOMAIN ctxs :
    LET r == scope[c[1]].req
        sigs == Signals(c)
    IN IF sigs = {}
       THEN ctxs[c].promise = "pending" /\ tx[c].state = "open"
       ELSE LET f == CHOOSE i \in sigs : \A j \in sigs : i <= j
                e == trace[r][f]
            IN /\ e.pend
               /\ \A i \in sigs \ {f} : ~trace[r][i].pend
               /\ ctxs[c].promise = IF e.arg = NoErr THEN "resolved" ELSE "rejected"
               /\ e.arg # NoErr => ctxs[c].reason = e.arg
               /\ tx[c].state \in {"open", IF e.arg = NoErr THEN "committed" ELSE "rolledback"}
               /\ Count(tx[c].stmts, "COMMIT") + Count(tx[c].stmts, "ROLLBACK") <= 1

C4_Witness ==
  \E c \in DOMAIN ctxs : \E i, j \in Signals(c) :
    LET r == scope[c[1]].req
    IN /\ i < j
       /\ trace[r][i].arg = NoErr
       /\ trace[r][j].arg # NoErr
       /\ tx[c].state = "committed"

\* The response of r has emitted no error event.
NoResponseError(r) == \A k \in Events(r, "res") : trace[r][k].who # "error"

\* C5: when a user handler reports an error while a scope of its request is Pending,
\* that scope's transaction is never committed, with or without end() in the chain
\* (stated for the runs in which the response emits no error event).
C5_ErrorPathNeverCommits ==
  \A r \in Req : NoResponseError(r) =>
    \A k \in 1..Len(trace[r]) : ErrorWhilePending(r, k) =>
      \A c \in DOMAIN ctxs : PendingAt(r, c, k) => tx[c].state # "committed"

\* C6: when the response emits its error event while a scope is Pending, the scope is
\* resolved through a rollback signal: its promise is rejected, not resolved.
C6_ResponseErrorRollsBack ==
  \A r \in Req : \A k \in Events(r, "res") : trace[r][k].who = "error" =>
    \A c \in DOMAIN ctxs : PendingAt(r, c, k) => ctxs[c].promise = "rejected"

\* C7: whenever the commit() handler runs while its request has no Pending scope, the
\* handler calls next with a TransactionOutOfBoundsError (stated for the runs in which
\* the response emits no error event).
C7_CommitOutOfBounds ==
  \A r \in Req : NoResponseError(r) => \A k \in Events(r, "run") :
    (trace[r][k].who = "commit" /\ ~trace[r][k].pend) =>
      /\ k < Len(trace[r])
      /\ trace[r][k + 1].t = "next"
      /\ trace[r][k + 1].who = "commit"
      /\ trace[r][k + 1].arg.name = "TransactionOutOfBoundsError"

\* C8: whenever the catchError() handler runs while its request has no Pending scope,
\* it calls next with the very error it received and signals no scope (stated for the
\* runs in which the response emits no error event).
C8_CatchErrorPassThrough ==
  \A r \in Req : NoResponseError(r) => \A k \in Events(r, "run") :
    (trace[r][k].who = "catchError" /\ ~trace[r][k].pend) =>
      /\ k < Len(trace[r])
      /\ trace[r][k + 1].t = "next"
      /\ trace[r][k + 1].who = "catchError"
      /\ trace[r][k + 1].arg = trace[r][k].arg

\* The calls next(e) that catchError() or begin() made on r after event k.
Delivered(r, e, k) ==
  {j \in Events(r, "next") :
     j > k /\ trace[r][j].arg = e /\ trace[r][j].who \in {"catchError", "begin"}}

\* Every begin() handler of r has finished.
Quiescent(r) == \A s \in ScopesOf(r) : scope[s].pc = "done"

\* C9: an application error that reaches catchError() is passed on to the chain's error
\* path at most once, by catchError() or by begin(), and exactly once by the time every
\* begin() handler of the request has finished (stated for the runs in which the
\* response emits no error event).
C9_ErrorDeliveredOnce ==
  \A r \in Req : NoResponseError(r) => \A k \in Events(r, "run") :
    (trace[r][k].who = "catchError" /\ trace[r][k].arg.name = "AppError") =>
      /\ Cardinality(Delivered(r, trace[r][k].arg, k)) <= 1
      /\ Quiescent(r) => Cardinality(Delivered(r, trace[r][k].arg, k)) = 1

\* The scope that the begin() at stage i of r's chain opened.
ScopeAt(r, i) == {s \in ScopesOf(r) : scope[s].stage = i}

\* C10: in the chain begin(); h1; end(); begin(); h2, a stage after the first end() runs
\* only when the first scope's transaction has been committed, and the row h1 wrote is
\* then visible.
C10_StagesAfterEndSeeCommit ==
  \A r \in Req : chain[r] = ChainTwice =>
    \A k \in Events(r, "run") : trace[r][k].at > 4 =>
      \E s \in ScopeAt(r, 1) :
        LET c == <<s, scope[s].att>>
        IN /\ c \in DOMAIN tx
           /\ tx[c].state = "committed"
           /\ tx[c].wrote => c \in db

\* Event k of trace[r]: a user handler was invoked.
HandlerRun(r, k) == k \in Events(r, "run") /\ trace[r][k].who = "handler"

\* The handler invoked at event k found in req.transaction the handle of a scope of its
\* own request that was Pending at that moment.
SeesPendingHandle(r, k) ==
  LET c == trace[r][k].c
  IN c # NoCtx /\ scope[c[1]].req = r /\ PendingAt(r, c, k)

\* The handler invoked at event k was invoked by the next() that begin() calls once
\* pool.transaction has settled, that is after the COMMIT or ROLLBACK.
InvokedAfterTransaction(r, k) ==
  k > 1 /\ trace[r][k - 1].t = "next" /\ trace[r][k - 1].who = "begin"

\* C11: a user handler invoked while its request has a Pending scope finds in
\* req.transaction the handle of a Pending scope of that request, and a handler
\* invoked after the transaction has been ended, while the request has no Pending
\* scope, finds req.transaction undefined.
C11_HandleFollowsScope ==
  \A r \in Req : \A k \in 1..Len(trace[r]) : HandlerRun(r, k) =>
    /\ trace[r][k].pend => SeesPendingHandle(r, k)
    /\ (InvokedAfterTransaction(r, k) /\ ~trace[r][k].pend) => trace[r][k].c = NoCtx

\* The first half of C11 alone.
HandleDefinedWhilePending ==
  \A r \in Req : \A k \in 1..Len(trace[r]) :
    (HandlerRun(r, k) /\ trace[r][k].pend) => SeesPendingHandle(r, k)

\* Event k of trace[r]: the commit() or the catchError() handler of r's chain was
\* invoked inside a transaction context (req.transactionId is set).
EndHandlerRun(r, k) ==
  /\ trace[r][k].t = "run"
  /\ trace[r][k].who \in {"commit", "catchError"}
  /\ trace[r][k].c # NoCtx

\* Event k of trace[r]: an error was created in r's own chain.
Raised(r, k) ==
  /\ trace[r][k].t = "next"
  /\ trace[r][k].arg # NoErr
  /\ \/ trace[r][k].who \in {"handler", "commit", "layer"}
     \/ trace[r][k].who = "begin" /\ trace[r][k].arg.name = "UndefinedPoolError"

\* C12: with two requests in flight through the one controller, the commit() and
\* catchError() handlers of a request's chain signal the scope published on that very
\* request and no other, every signal a scope receives from such a handler comes from
\* its own request's chain, every error a chain or a scope receives was raised in that
\* chain, and req.transactionId, req.transaction and the response listeners of a
\* request lead to scopes of that request only.
C12_RequestsIsolated ==
  \A r \in Req :
    /\ \A k \in 1..Len(trace[r]) : EndHandlerRun(r, k) =>
         /\ k < Len(trace[r])
         /\ trace[r][k + 1].t = "sig"
         /\ trace[r][k + 1].who = trace[r][k].who
         /\ trace[r][k + 1].c = trace[r][k].c
         /\ scope[trace[r][k].c[1]].req = r
    /\ \A k \in Events(r, "sig") : trace[r][k].who \in {"commit", "catchError"} =>
         /\ k > 1
         /\ EndHandlerRun(r, k - 1)
         /\ trace[r][k - 1].who = trace[r][k].who
         /\ trace[r][k - 1].c = trace[r][k].c
    /\ \A j \in 1..Len(trace[r]) : trace[r][j].arg # NoErr =>
         \E k \in 1..j : Raised(r, k) /\ trace[r][k].arg = trace[r][j].arg
    /\ \A s \in ScopesOf(r) : \A c \in DOMAIN ctxs :
         (c[1] = s /\ ctxs[c].promise = "rejected") =>
           \E k \in 1..Len(trace[r]) : Raised(r, k) /\ trace[r][k].arg = ctxs[c].reason
    /\ reqTid[r] # 0 => scope[reqTid[r]].req = r
    /\ reqTx[r] # NoCtx => scope[reqTx[r][1]].req = r
    /\ \A j \in 1..Len(resL[r]) : scope[resL[r][j].c[1]].req = r
    /\ \A q \in Req \ {r} : reqTid[r] # 0 => reqTid[q] # reqTid[r]

\* Request A's scope was rolled back through the catchError() of A's chain while the
\* scope of request B, opened before A's, stays Pending with its write.
C12_Witness ==
  \E r, q \in Req : \E s \in ScopesOf(r) : \E u \in ScopesOf(q) :
    /\ r # q /\ u < s
    /\ chain[r] = ChainBasic /\ chain[q] = ChainBasic
    /\ \E k \in Events(r, "sig") : trace[r][k].who = "catchError" /\ trace[r][k].pend
    /\ tx[<<s, 1>>].state = "rolledback"
    /\ scope[s].pc = "done"
    /\ IsPending(Cur, <<u, 1>>)
    /\ tx[<<u, 1>>].wrote
    /\ Events(q, "sig") = {}

\* The reads made through transaction c, as positions in its statements.
Reads(c) == {j \in 1..Len(tx[c].stmts) : tx[c].stmts[j].op = "SELECT"}

\* C13: with two concurrent requests that both begin(READ_COMMITTED), a read through
\* req.transaction of one request goes to that request's own transaction and returns no
\* row that another transaction had written and not committed: every row it returns was
\* written by the reading transaction itself or had been committed.
C13_NoDirtyRead ==
  \A c \in DOMAIN tx : \A j \in Reads(c) :
    LET q == tx[c].stmts[j].arg
    IN /\ tx[c].level = READ_COMMITTED
       /\ scope[c[1]].req = q.by
       /\ q.rows \cap q.dirty = {}
       /\ \A x \in q.rows : x = c \/ x \in db

\* Request B read the row while the scope of request A, which had written it, was
\* Pending, and A's scope is Pending still.
C13_Witness ==
  \E c \in DOMAIN tx : \E j \in Reads(c) : \E x \in tx[c].stmts[j].arg.dirty :
    /\ scope[x[1]].req # tx[c].stmts[j].arg.by
    /\ tx[x].level = READ_COMMITTED
    /\ IsPending(Cur, x)
    /\ x \notin tx[c].stmts[j].arg.rows

\* The Pending scopes that request r opened.
PendingOf(r) == {c \in DOMAIN ctxs : scope[c[1]].req = r /\ IsPending(Cur, c)}

\* C14: at most one scope opened by a request is Pending, whatever the chain, a chain
\* that invokes begin() again before the first scope has been resolved included.
C14_OnePendingScope == \A r \in Req : Cardinality(PendingOf(r)) <= 1

\* C14 for the chains that do not run begin() while a scope of the request is Pending.
OnePendingUnlessNested ==
  \A r \in Req :
    (\A k \in Events(r, "run") : trace[r][k].who = "begin" => ~trace[r][k].pend) =>
      Cardinality(PendingOf(r)) <= 1

\* The calls of next that the begin() handler at stage i of r's chain made.
BeginNexts(r, i) ==
  {k \in Events(r, "next") :
     trace[r][k].who \in {"begin", "begin-held"} /\ trace[r][k].at = i}

\* C15: when the controller has no pool, every begin() handler that is invoked calls
\* next once, with an UndefinedPoolError, before it returns, and does nothing else: no
\* scope and no transaction is opened, no statement is issued, req.transactionId and
\* req.transaction stay unset, the response gets no listener, and nothing is retried.
C15_NoPoolReportsOnce ==
  ~pool =>
    /\ scope = <<>> /\ tx = <<>> /\ ctxs = <<>> /\ registry = <<>> /\ db = {}
    /\ \A r \in Req :
         /\ reqTid[r] = 0 /\ reqTx[r] = NoCtx /\ resL[r] = <<>>
         /\ \A k \in Events(r, "run") : trace[r][k].who = "begin" =>
              /\ Cardinality(BeginNexts(r, trace[r][k].at)) = 1
              /\ trace[r][k + 1].t = "next"
              /\ trace[r][k + 1].who = "begin"
              /\ trace[r][k + 1].at = trace[r][k].at
              /\ trace[r][k + 1].arg = Err("UndefinedPoolError", trace[r][k].at)

\* Without a pool, begin() of the chain begin(); handler; end() reported the
\* UndefinedPoolError, catchError() passed it on and it reached the application.
C15_Witness ==
  \E r \in Req :
    /\ ~pool
    /\ chain[r] = ChainBasic
    /\ \E k \in Events(r, "run") : trace[r][k].who = "begin"
    /\ \E k \in Events(r, "run") :
         trace[r][k].who = "catchError" /\ trace[r][k].arg.name = "UndefinedPoolError"
    /\ \E k \in Events(r, "tail") : trace[r][k].arg.name = "UndefinedPoolError"

\* The calls that returned a controller, as positions in the history.
Returned(k) == k \in 1..Len(calls) /\ calls[k].err = "none"

\* C16: in every sequence of createMiddleware / getOrCreateContext calls, two calls
\* made with the same pool return the identical controller, every returned controller
\* is the registered instance, and no two controllers were constructed for one pool.
C16_SameControllerForSamePool ==
  /\ \A j, k \in 1..Len(calls) :
       (Returned(j) /\ Returned(k) /\ calls[j].arg = calls[k].arg) =>
         calls[j].ret = calls[k].ret
  /\ \A k \in 1..Len(calls) : Returned(k) => calls[k].ret \in 1..Len(controllers)
  /\ Returned(Len(calls)) => calls[Len(calls)].ret = instance
  /\ \A m, n \in 1..Len(controllers) :
       controllers[m].pool = controllers[n].pool => m = n

\* createMiddleware(P1) and getOrCreateContext(P1) were both called and returned the
\* controller that was constructed for P1.
C16_Witness ==
  \E j, k \in 1..Len(calls) :
    /\ j < k
    /\ calls[j].arg = P1 /\ calls[j].fn = "createMiddleware" /\ calls[j].ret = 1
    /\ calls[k].arg = P1 /\ calls[k].fn = "getOrCreateContext" /\ calls[k].ret = 1
    /\ controllers = <<[pool |-> P1]>>

\* The events of trace[r] at which the begin() at stage i of r's chain was invoked.
BeginRuns(r, i) ==
  {k \in Events(r, "run") : trace[r][k].who = "begin" /\ trace[r][k].at = i}

\* Independence of the scope that the second begin() of begin(); h1; end(); begin(); h2
\* opens from the scopes of the first: when the second begin() is invoked every scope of
\* the first has been resolved, the second scope has another id and another handle,
\* and every terminal signal sent from then on goes to the second scope.
SecondScopeIndependent(r) ==
  \A k \in BeginRuns(r, 5) :
    /\ ~trace[r][k].pend
    /\ \A s1 \in ScopeAt(r, 1) : \A s2 \in ScopeAt(r, 5) :
         /\ s1 # s2
         /\ \A c1, c2 \in DOMAIN tx : (c1[1] = s1 /\ c2[1] = s2) => c1 # c2
         /\ \A c \in DOMAIN ctxs : c[1] = s1 => ctxs[c].promise # "pending"
    /\ \A j \in Events(r, "sig") : j > k =>
         /\ trace[r][j].c[1] \in ScopeAt(r, 5)
         /\ trace[r][j].c[1] \notin ScopeAt(r, 1)

\* C17: in the chain begin(); h1; end(); begin(); h2 the second begin() opens a scope
\* that is independent of the first: another id, another transaction handle, the first
\* scope resolved for good, and signals sent after the second begin() reach only the
\* second scope.
C17_ReentryIndependent ==
  \A r \in Req : chain[r] = ChainTwice => SecondScopeIndependent(r)

\* C17 for the runs in which the first begin()'s transaction is not retried.
ReentryIndependentWithoutRetry ==
  \A r \in Req :
    (chain[r] = ChainTwice /\ \A s \in ScopeAt(r, 1) : scope[s].att = 1) =>
      SecondScopeIndependent(r)

\* The second scope of begin(); h1; end(); begin(); h2 was opened after the first was
\* committed, and was itself resolved and committed.
ReentryReached ==
  \E r \in Req : \E s1 \in ScopeAt(r, 1) : \E s2 \in ScopeAt(r, 5) :
    /\ chain[r] = ChainTwice
    /\ scope[s1].att = 1
    /\ tx[<<s1, 1>>].state = "committed"
    /\ <<s2, 1>> \in DOMAIN tx
    /\ tx[<<s2, 1>>].state = "committed"
    /\ \E j \in Events(r, "sig") : trace[r][j].c = <<s2, 1>> /\ trace[r][j].pend

\* Every attempt of scope s so far was rejected with a serialization failure.
AllConflict(s) ==
  \A a \in 1..scope[s].att :
    /\ <<s, a>> \in DOMAIN ctxs
    /\ ctxs[<<s, a>>].promise = "rejected"
    /\ ctxs[<<s, a>>].reason.name = "Conflict"

\* The calls next(...) that begin() of scope s made after pool.transaction settled.
BeginResumes(s) ==
  LET r == scope[s].req
  IN {k \in Events(r, "next") : trace[r][k].who = "begin" /\ trace[r][k].at = scope[s].stage}

\* C18: the pool makes at most retryLimit retries; and when every attempt of a scope
\* failed with a serialization failure and begin() has finished, begin() called next
\* exactly once, with the error of the last attempt unchanged and never without an
\* error, no attempt was committed, and req.transactionId, req.transaction and the
\* registry no longer lead to the scope.
C18_RetryExhaustion ==
  \A s \in 1..Len(scope) :
    LET r == scope[s].req
    IN /\ scope[s].att <= scope[s].retry + 1
       /\ (AllConflict(s) /\ scope[s].pc = "done") =>
            /\ Cardinality(BeginResumes(s)) = 1
            /\ \A k \in BeginResumes(s) :
                 trace[r][k].arg = ctxs[<<s, scope[s].att>>].reason
            /\ \A a \in 1..scope[s].att :
                 /\ tx[<<s, a>>].state = "rolledback"
                 /\ Count(tx[<<s, a>>].stmts, "COMMIT") = 0
                 /\ <<s, a>> \notin db
            /\ s \notin DOMAIN registry
            /\ reqTid[r] # s
            /\ reqTx[r][1] # s

\* begin(SERIALIZABLE, 1): both attempts failed with a serialization failure, begin()
\* gave up after the one retry and the error reached the application.
C18_Witness ==
  \E s \in 1..Len(scope) :
    /\ chain[scope[s].req] = ChainRetry
    /\ scope[s].retry = RetryLimit
    /\ scope[s].att = RetryLimit + 1
    /\ AllConflict(s)
    /\ scope[s].pc = "done"
    /\ \E k \in Events(scope[s].req, "tail") : trace[scope[s].req][k].arg.name = "Conflict"

IsolationStmt(level) == Stmt("SET TRANSACTION ISOLATION LEVEL", level)

\* C19: begin() without arguments uses READ COMMITTED and the retry limit 5; and for
\* every begin(level, n), every attempt's transaction has SET TRANSACTION ISOLATION
\* LEVEL with that very level as its first statement, issued once, before the scope is
\* registered and the handle published, hence before any downstream handler runs or
\* queries; the level is the same in all attempts of a scope.
C19_IsolationLevelFirst ==
  /\ BeginArgs(<<>>) = Begin("READ COMMITTED", 5)
  /\ \A s \in 1..Len(scope) :
       LET st == chain[scope[s].req][scope[s].stage]
       IN /\ scope[s].level = st.level /\ scope[s].retry = st.retry
          /\ st = BeginDefault => (scope[s].level = "READ COMMITTED" /\ scope[s].retry = 5)
          /\ \A c \in Attempts(s) :
               /\ tx[c].level = st.level
               /\ Len(tx[c].stmts) >= 2
               /\ tx[c].stmts[1].op = "START TRANSACTION"
               /\ tx[c].stmts[2] = IsolationStmt(st.level)
               /\ Count(tx[c].stmts, "SET TRANSACTION ISOLATION LEVEL") = 1
  /\ \A c \in DOMAIN ctxs : c \in DOMAIN tx
  /\ \A r \in Req :
       /\ reqTx[r] # NoCtx => reqTx[r] \in DOMAIN tx
       /\ \A k \in Events(r, "open") : trace[r][k].c \in DOMAIN tx
       /\ \A k \in Events(r, "run") : trace[r][k].c # NoCtx => trace[r][k].c \in DOMAIN tx

\* begin(SERIALIZABLE, 1) was retried: both attempts set SERIALIZABLE first, and the
\* handler wrote through the first attempt's handle after that statement.
C19_Witness ==
  \E s \in 1..Len(scope) :
    /\ scope[s].level = SERIALIZABLE
    /\ scope[s].att = 2
    /\ <<s, 2>> \in DOMAIN ctxs
    /\ tx[<<s, 1>>].stmts[2] = IsolationStmt(SERIALIZABLE)
    /\ tx[<<s, 2>>].stmts[2] = IsolationStmt(SERIALIZABLE)
    /\ Len(tx[<<s, 1>>].stmts) >= 3 /\ tx[<<s, 1>>].stmts[3].op = "INSERT"

\* The stack of a route on which commit() and catchError() are mounted one after the
\* other where the route `front \o End \o back` mounts end().
MountedApart(front, back) == front \o <<CommitStage>> \o <<CatchErrorStage>> \o back

LateSignal(r, k) == trace[r][k].t = "sig" /\ ~trace[r][k].pend

\* The signal that resolved scope c: the one that found it Pending.
ResolvingSignal(c) ==
  LET r == scope[c[1]].req
  IN CHOOSE j \in 1..Len(trace[r]) :
       trace[r][j].t = "sig" /\ trace[r][j].c = c /\ trace[r][j].pend

\* Scope c was resolved by a signal of kind `first` and then reached by one of kind
\* `second` ("commit" or "error": a signal without or with an error).
SignalOrder(c, first, second) ==
  LET r == scope[c[1]].req
      Kind(e) == IF e.arg = NoErr THEN "commit" ELSE "error"
  IN \E i, j \in 1..Len(trace[r]) :
       /\ i < j
       /\ trace[r][i].t = "sig" /\ trace[r][i].c = c /\ trace[r][i].pend
       /\ LateSignal(r, j) /\ trace[r][j].c = c
       /\ Kind(trace[r][i]) = first
       /\ Kind(trace[r][j]) = second

\* C21: a terminal signal that reaches a scope already resolved changes nothing: the
\* scope keeps the outcome and the error of the signal that resolved it, its transaction
\* is ended at most once and in agreement with that signal, the handler that sent the
\* late signal calls neither next() nor next(err) and nothing is thrown in it, and
\* begin() resumes the chain at most once for the scope.
C21_LateSignalNoOp ==
  \A r \in Req : \A k \in 1..Len(trace[r]) :
    LateSignal(r, k) =>
      LET c == trace[r][k].c
          f == trace[r][ResolvingSignal(c)]
      IN /\ \E j \in 1..(k - 1) :
              trace[r][j].t = "sig" /\ trace[r][j].c = c /\ trace[r][j].pend
         /\ ctxs[c].promise = IF f.arg = NoErr THEN "resolved" ELSE "rejected"
         /\ ctxs[c].reason = f.arg
         /\ tx[c].state \in {"open", IF f.arg = NoErr THEN "committed" ELSE "rolledback"}
         /\ Count(tx[c].stmts, "COMMIT") + Count(tx[c].stmts, "ROLLBACK") <= 1
         /\ k < Len(trace[r]) =>
              ~(/\ trace[r][k + 1].t \in {"next", "tail"}
                /\ trace[r][k + 1].who \in {"commit", "catchError", "layer"})
         /\ Cardinality(BeginResumes(c[1])) <= 1

\* begin(); handler; end(); error handler; end(): the handler reported an error, the
\* first end() rolled the scope back, the application's error handler let the chain go
\* on, and the commit() of the second end() reached the rolled-back scope.
C21_Witness ==
  \E c \in DOMAIN ctxs :
    /\ chain[scope[c[1]].req] = ChainRecover
    /\ SignalOrder(c, "error", "commit")
    /\ ctxs[c].promise = "rejected"
    /\ tx[c].state = "rolledback"
    /\ scope[c[1]].pc = "done"

\* The other three orders of two signals on one scope.
CommitThenError == \E c \in DOMAIN ctxs : SignalOrder(c, "commit", "error")
CommitThenCommit == \E c \in DOMAIN ctxs : SignalOrder(c, "commit", "commit")
ErrorThenError == \E c \in DOMAIN ctxs : SignalOrder(c, "error", "error")

\* The transaction of attempt c has been ended and begin() resumed the chain for it in
\* agreement with the outcome: exactly one call, next() after a COMMIT and next(error),
\* with the error the scope was rejected with, after a ROLLBACK.
ResumedOnce(c) ==
  LET r == scope[c[1]].req
      resumes == BeginResumes(c[1])
  IN /\ Cardinality(resumes) = 1
     /\ \A k \in resumes :
          trace[r][k].arg = IF tx[c].state = "committed" THEN NoErr ELSE ctxs[c].reason

\* The stage that event k of trace[r], a call of next, invoked (a handler, or the
\* application behind the route) has been invoked exactly once.
InvokedOnce(r, k) ==
  /\ k < Len(trace[r])
  /\ trace[r][k + 1].t \in {"run", "tail"}
  /\ Cardinality({i \in 1..Len(trace[r]) :
                    /\ trace[r][i].t = trace[r][k + 1].t
                    /\ trace[r][i].at = trace[r][k + 1].at}) = 1

\* C22: for every scope whose transaction has been ended, begin() has resumed the chain
\* exactly once, with next() after a commit and with next(error) after a rollback; and
\* when the commit() handler resolved a Pending scope, the stage that the resumption
\* invokes after end() has been invoked exactly once.
C22_ResumedOnceAfterFinalized ==
  /\ \A c \in DOMAIN tx : tx[c].state # "open" => ResumedOnce(c)
  /\ \A r \in Req : \A k \in 1..Len(trace[r]) :
       LET e == trace[r][k]
       IN (e.t = "sig" /\ e.who = "commit" /\ e.pend /\ tx[e.c].state = "committed") =>
            \E j \in BeginResumes(e.c[1]) : j > k /\ InvokedOnce(r, j)

\* The same for the requests none of whose transactions was retried, on the routes
\* that do not nest begin().
ResumedOnceWithoutRetry ==
  \A r \in Req : (chain[r] # ChainNested /\ \A s \in ScopesOf(r) : scope[s].att = 1) =>
    /\ \A c \in DOMAIN tx : (scope[c[1]].req = r /\ tx[c].state # "open") => ResumedOnce(c)
    /\ \A k \in 1..Len(trace[r]) :
         LET e == trace[r][k]
         IN (e.t = "sig" /\ e.who = "commit" /\ e.pend /\ tx[e.c].state = "committed") =>
              \E j \in BeginResumes(e.c[1]) : j > k /\ InvokedOnce(r, j)

\* A committed scope that the commit() handler resolved, and one that was rolled back.
ResumedOnceReached ==
  /\ \E r \in Req : \E k \in 1..Len(trace[r]) :
       /\ trace[r][k].t = "sig" /\ trace[r][k].who = "commit" /\ trace[r][k].pend
       /\ tx[trace[r][k].c].state = "committed"
  /\ \E c \in DOMAIN tx : tx[c].state = "rolledback"

\* The position in the trace of its request at which begin() registered attempt c.
OpenedAt(c) ==
  LET r == scope[c[1]].req
  IN {j \in 1..Len(trace[r]) : trace[r][j].t = "open" /\ trace[r][j].c = c}

\* The calls of next() that the callback of scope s made while holding a transaction.
HeldNexts(s) ==
  LET r == scope[s].req
  IN {k \in 1..Len(trace[r]) :
        /\ trace[r][k].t = "next"
        /\ trace[r][k].who = "begin-held"
        /\ trace[r][k].at = scope[s].stage}

\* C23: in every attempt begin() works in this order: the transaction is opened, the
\* isolation level statement is its first statement, then the scope is registered and
\* req.transaction published, then next() is called, once per attempt, without an
\* error and before any terminal signal, that is while the scope is Pending; the stage
\* this call invokes finds the attempt's handle in req.transaction; and as long as no
\* terminal signal has reached the attempt its transaction is open, so the stages
\* invoked until then run inside it.
C23_BeginOrder ==
  /\ \A c \in DOMAIN ctxs :
       LET r == scope[c[1]].req
           s == c[1]
       IN /\ c \in DOMAIN tx
          /\ Len(tx[c].stmts) >= 2
          /\ tx[c].stmts[1] = Stmt("START TRANSACTION", "-")
          /\ tx[c].stmts[2] = IsolationStmt(scope[s].level)
          /\ Cardinality(OpenedAt(c)) = 1
          /\ \A j \in OpenedAt(c) :
               /\ j < Len(trace[r])
               /\ trace[r][j + 1].t = "next"
               /\ trace[r][j + 1].who = "begin-held"
               /\ trace[r][j + 1].at = scope[s].stage
               /\ trace[r][j + 1].arg = NoErr
               /\ trace[r][j + 1].pend
               /\ \A i \in 1..j : ~(trace[r][i].t = "sig" /\ trace[r][i].c = c)
               /\ (j + 2 <= Len(trace[r]) /\ trace[r][j + 2].t = "run") =>
                    (trace[r][j + 2].c = c /\ trace[r][j + 2].pend)
          /\ Signals(c) = {} => (tx[c].state = "open" /\ ctxs[c].promise = "pending")
  /\ \A s \in 1..Len(scope) :
       Cardinality(HeldNexts(s)) = Cardinality({c \in DOMAIN ctxs : c[1] = s})

\* A handler was invoked by the next() of begin()'s callback, found the attempt's handle
\* and wrote through it before any signal; later the scope was committed.
C23_Witness ==
  \E c \in DOMAIN ctxs :
    LET r == scope[c[1]].req
    IN /\ \E j \in OpenedAt(c) :
            /\ j + 2 <= Len(trace[r])
            /\ trace[r][j + 2].t = "run"
            /\ trace[r][j + 2].who = "handler"
            /\ trace[r][j + 2].c = c
       /\ tx[c].wrote
       /\ Signals(c) # {}
       /\ tx[c].state = "committed"

\* The retry of a scope runs the callback again: attempt c, a second or later attempt,
\* has the isolation level statement after its START TRANSACTION, is registered under
\* the scope's id, and the callback called next() for it.
RetryRunsCallback(c) ==
  LET s == c[1]
      r == scope[s].req
  IN /\ tx[c].stmts[1] = Stmt("START TRANSACTION", "-")
     /\ tx[c].stmts[2] = IsolationStmt(scope[s].level)
     /\ \E j \in OpenedAt(c) :
          /\ trace[r][j + 1].t = "next"
          /\ trace[r][j + 1].who = "begin-held"

\* The stages between begin() and end() of scope s: the user handlers after begin()'s
\* stage up to the next commit() handler.
Protected(s) ==
  LET r == scope[s].req
      i == scope[s].stage
  IN {h \in (i + 1)..Len(chain[r]) :
        /\ chain[r][h].k = "handler"
        /\ \A g \in (i + 1)..h : chain[r][g].k # "commit"}

\* Attempt c executed the stage h of its request: h was invoked with the handle of c
\* in req.transaction.
ExecutedIn(c, h) ==
  LET r == scope[c[1]].req
  IN \E k \in 1..Len(trace[r]) :
       trace[r][k].t = "run" /\ trace[r][k].at = h /\ trace[r][k].c = c

\* C24: when the pool retries a scope after a serialization failure, the new attempt
\* runs the whole callback again (isolation level statement, new handle published,
\* next() called), the stages between begin() and end() are invoked again with the new
\* handle, and the new attempt is not committed without them.
C24_RetryRedoesWork ==
  \A c \in DOMAIN ctxs : c[2] > 1 =>
    /\ RetryRunsCallback(c)
    /\ tx[c].state = "committed" => \A h \in Protected(c[1]) : ExecutedIn(c, h)

\* What holds of a retry: the callback runs again.
RetryRunsCallbackOnly == \A c \in DOMAIN ctxs : c[2] > 1 => RetryRunsCallback(c)

\* A retried attempt was committed although no stage between begin() and end() ran in
\* it: the write of the first attempt was rolled back and never redone.
RetryCommitsWithoutWork ==
  \E c \in DOMAIN ctxs :
    /\ c[2] > 1
    /\ tx[c].state = "committed"
    /\ tx[<<c[1], 1>>].wrote
    /\ ~tx[c].wrote
    /\ \A h \in Protected(c[1]) : ~ExecutedIn(c, h)

\* The ids of the scopes begin() has created (a TransactionContext was constructed
\* under the id) and whose begin() handler has not completed.
LiveIds == {s \in 1..Len(scope) : scope[s].pc # "done" /\ \E c \in DOMAIN ctxs : c[1] = s}

\* C25: once the begin() handler of a scope has completed, whatever the outcome, the
\* registry has no entry under the scope's id and neither req.transactionId nor
\* req.transaction leads to it; and in every state the keys of the registry are exactly
\* the ids of the scopes whose begin() handler has not completed, each entry holding a
\* context of that id.
C25_RegistryHoldsLiveScopes ==
  /\ \A s \in 1..Len(scope) : scope[s].pc = "done" =>
       /\ s \notin DOMAIN registry
       /\ \A r \in Req : reqTid[r] # s /\ reqTx[r][1] # s
  /\ DOMAIN registry = LiveIds
  /\ \A s \in DOMAIN registry : registry[s][1] = s /\ registry[s] \in DOMAIN ctxs

\* Two begin() handlers have completed, one after a commit and one after a rollback
\* when the retries of a serialization failure were used up, and the registry is empty.
C25_Witness ==
  /\ \E s, u \in 1..Len(scope) :
       /\ scope[s].pc = "done" /\ tx[<<s, scope[s].att>>].state = "committed"
       /\ scope[u].pc = "done" /\ scope[u].att > 1 /\ AllConflict(u)
       /\ tx[<<u, scope[u].att>>].state = "rolledback"
  /\ DOMAIN registry = {}
  /\ \A r \in Req : reqTid[r] = 0 /\ reqTx[r] = NoCtx

\* The listeners on the response of r for the event ev.
Listeners(r, ev) == {j \in 1..Len(resL[r]) : resL[r][j].ev = ev}

\* C26: a scope that is resolved has none of the listeners begin() registered for it
\* left on the response; and on every response, for finish as for error, there are at
\* most as many of these listeners as the request has Pending scopes, each belonging
\* to a Pending scope of that request.
C26_ListenersOnlyWhilePending ==
  /\ \A c \in DOMAIN ctxs : ctxs[c].promise # "pending" =>
       \A r \in Req : \A j \in 1..Len(resL[r]) : resL[r][j].c # c
  /\ \A r \in Req : \A ev \in {"finish", "error"} :
       /\ Cardinality(Listeners(r, ev)) <= Cardinality(PendingOf(r))
       /\ \A j \in Listeners(r, ev) :
            /\ resL[r][j].c \in DOMAIN ctxs
            /\ scope[resL[r][j].c[1]].req = r
            /\ ctxs[resL[r][j].c].promise = "pending"

\* A retried scope and a later begin(): the first attempt was rolled back and its
\* listeners are gone, the second attempt is Pending with one finish and one error
\* listener.
C26_Witness ==
  \E r \in Req : \E s \in ScopesOf(r) :
    /\ Cardinality(Listeners(r, "finish")) = 1
    /\ Cardinality(Listeners(r, "error")) = 1
    /\ scope[s].att = 2
    /\ ctxs[<<s, 1>>].promise = "rejected"
    /\ <<s, 2>> \in DOMAIN ctxs
    /\ ctxs[<<s, 2>>].promise = "pending"

\* A second begin() of the chain is Pending after the first one has completed.
ListenersOfLaterBegin ==
  \E r \in Req : \E s, t \in ScopesOf(r) :
    /\ s < t
    /\ scope[s].pc = "done"
    /\ <<t, 1>> \in DOMAIN ctxs
    /\ ctxs[<<t, 1>>].promise = "pending"
    /\ Cardinality(Listeners(r, "finish")) = 1

\* C27: a scope that no terminal signal has reached stays as begin() left it: it is
\* Pending and its transaction open with neither COMMIT nor ROLLBACK, begin() is still
\* inside pool.transaction and has not resumed the chain, the registry entry and both
\* response listeners are in place; and as long as no signal has reached any scope of
\* the request, req.transactionId and req.transaction lead to a Pending scope of it.
\* Nothing the controller does ends such a scope, however far the chain has run.
C27_AbandonedStaysPending ==
  \A c \in DOMAIN ctxs : Signals(c) = {} =>
    LET s == c[1]
        r == scope[s].req
    IN /\ ctxs[c].promise = "pending"
       /\ tx[c].state = "open"
       /\ Count(tx[c].stmts, "COMMIT") + Count(tx[c].stmts, "ROLLBACK") = 0
       /\ scope[s].pc = "held"
       /\ scope[s].att = c[2]
       /\ BeginResumes(s) = {}
       /\ s \in DOMAIN registry
       /\ registry[s] = c
       /\ \A ev \in {"finish", "error"} : \E j \in Listeners(r, ev) : resL[r][j].c = c
       /\ Events(r, "sig") = {} =>
            /\ reqTid[r] \in DOMAIN registry
            /\ reqTx[r] = registry[reqTid[r]]
            /\ reqTx[r] \in PendingOf(r)

\* begin(); handler with no end(): the handler wrote a row and called next(), the chain
\* ran to its end, and no terminal signal has reached the scope.
C27_Witness ==
  \E c \in DOMAIN ctxs :
    LET r == scope[c[1]].req
    IN /\ chain[r] = ChainNoEnd
       /\ TailReached(r)
       /\ running[r] = {}
       /\ tx[c].wrote
       /\ Signals(c) = {}
       /\ ctxs[c].promise = "pending"

\* Every scope of request r has been resolved and cleaned up: begin() has completed.
AllCleanedUp(r) == \A s \in ScopesOf(r) : scope[s].pc = "done"

\* C28: with fair delivery of events, once the response of a request has emitted
\* finish, every scope of the request, whenever it was opened, is eventually resolved
\* and cleaned up.
C28_FinishedResponseResolves ==
  \A r \in Req : [](resp[r] = "finished" => <>AllCleanedUp(r))

\* The finish event of the response reached the current attempt of scope s.
FinishReached(s) ==
  /\ s \in 1..Len(scope)
  /\ \E k \in 1..Len(trace[scope[s].req]) :
       LET e == trace[scope[s].req][k]
       IN e.t = "sig" /\ e.who = "finish" /\ e.c = <<s, scope[s].att>>

CleanedUp(s) == s \in 1..Len(scope) /\ scope[s].pc = "done"

\* With fair delivery, a scope that the finish event of its response has reached is
\* eventually cleaned up (a request of these runs invokes begin() at most twice).
PendingAtFinishResolves ==
  \A s \in 1..(2 * Cardinality(Req)) : [](FinishReached(s) => <>CleanedUp(s))

\* C29: in the chain begin(); begin(); h; end(); end() with no error from the handler
\* and none from the response, no stage reports TransactionOutOfBoundsError, no scope is
\* rolled back, req.transactionId and req.transaction stay defined as long as the outer
\* scope is Pending, the second end() resolves the outer scope, and when both begin()
\* handlers have completed both transactions are committed and the chain has gone on
\* past the second end() without an error.
C29_NestedBothCommit ==
  \A r \in Req : (chain[r] = ChainNested /\ ~ErrorReported(r) /\ NoResponseError(r)) =>
    /\ \A k \in 1..Len(trace[r]) :
         /\ trace[r][k].arg.name # "TransactionOutOfBoundsError"
         /\ (trace[r][k].t = "run" /\ trace[r][k].at = 6) =>
              \A s \in ScopeAt(r, 1) : ctxs[<<s, 1>>].promise = "resolved"
    /\ \A c \in DOMAIN tx : scope[c[1]].req = r => tx[c].state # "rolledback"
    /\ \A s \in ScopeAt(r, 1) :
         (<<s, 1>> \in DOMAIN ctxs /\ ctxs[<<s, 1>>].promise = "pending") =>
           (reqTid[r] # 0 /\ reqTx[r] # NoCtx)
    /\ (ScopesOf(r) # {} /\ AllCleanedUp(r)) =>
         /\ Cardinality(ScopesOf(r)) = 2
         /\ \A s \in ScopesOf(r) : tx[<<s, 1>>].state = "committed"
         /\ \E k \in 1..Len(trace[r]) : trace[r][k].t = "tail" /\ trace[r][k].arg = NoErr

\* What the nested chain does: the inner begin() has completed after the first end()
\* committed it, the second end() has run and signalled the inner scope again, and the
\* outer scope is Pending with req.transactionId and req.transaction removed.
NestedOuterLeftPending ==
  \E r \in Req : \E s, t \in ScopesOf(r) :
    /\ chain[r] = ChainNested
    /\ ~ErrorReported(r)
    /\ Events(r, "res") = {}
    /\ scope[s].stage = 1
    /\ scope[t].stage = 2
    /\ scope[t].pc = "done"
    /\ tx[<<t, 1>>].state = "committed"
    /\ \E k \in 1..Len(trace[r]) :
         trace[r][k].t = "sig" /\ trace[r][k].who = "commit" /\ ~trace[r][k].pend
    /\ ctxs[<<s, 1>>].promise = "pending"
    /\ reqTid[r] = 0
    /\ reqTx[r] = NoCtx

\* The calls of createMiddleware / getOrCreateContext that returned a controller; the
\* first of them constructed it.
Creations == {k \in 1..Len(calls) : Returned(k) /\ calls[k].fn # "begin"}

ConstructedFor(a) ==
  /\ Creations # {}
  /\ calls[CHOOSE k \in Creations : \A j \in Creations : k <= j].arg = a

\* C30: once the controller has been constructed for P1, every createMiddleware or
\* getOrCreateContext call made with P2 returns that controller, still bound to P1, no
\* second controller is ever constructed, and every begin() run on a returned
\* controller opens its transaction on P1.
C30_FirstPoolWins ==
  /\ Len(controllers) <= 1
  /\ ConstructedFor(P1) =>
       /\ controllers[1].pool = P1
       /\ \A k \in 1..Len(calls) :
            /\ (calls[k].fn # "begin" /\ calls[k].arg = P2) =>
                 /\ Returned(k)
                 /\ calls[k].ret = 1
                 /\ controllers[calls[k].ret].pool = P1
            /\ calls[k].fn = "begin" => (calls[k].arg = P1 /\ calls[k].err = "none")

\* createMiddleware(P1), then createMiddleware(P2), then a begin() on the controller
\* returned: its transaction was opened on P1.
C30_Witness ==
  /\ Len(calls) = 3
  /\ calls[1].fn = "createMiddleware" /\ calls[1].arg = P1
  /\ calls[2].fn = "createMiddleware" /\ calls[2].arg = P2 /\ calls[2].ret = calls[1].ret
  /\ calls[3].fn = "begin" /\ calls[3].ret = calls[2].ret /\ calls[3].arg = P1

\* The argument has the shape of a Slonik pool: it is an object with a pool's methods.
PoolShaped(a) == a # Undefined /\ PoolMethods \subseteq a.methods

\* The calls of createMiddleware made with an argument of the shape of a pool.
ValidCreations ==
  {k \in 1..Len(calls) : calls[k].fn = "createMiddleware" /\ PoolShaped(calls[k].arg)}

\* What the claim says of the calls made so far, when the registry has been reached
\* through createMiddleware only: every call with an argument that is not shaped like a
\* pool threw a TypeError and returned no controller; as long as no call had a valid
\* pool no controller exists; and the first call with a valid pool constructed the one
\* controller, bound to that pool.
RejectsNonPools ==
  (\A k \in 1..Len(calls) : calls[k].fn # "getOrCreateContext") =>
    /\ \A k \in 1..Len(calls) :
         (calls[k].fn = "createMiddleware" /\ ~PoolShaped(calls[k].arg)) =>
           (calls[k].err = "TypeError" /\ calls[k].ret = 0)
    /\ ValidCreations = {} => (instance = 0 /\ controllers = <<>>)
    /\ ValidCreations # {} =>
         LET first == CHOOSE k \in ValidCreations : \A j \in ValidCreations : k <= j
         IN /\ instance = 1
            /\ controllers = <<[pool |-> calls[first].arg]>>
            /\ calls[first].ret = 1
            /\ calls[first].err = "none"

\* C31: createMiddleware called with an argument that has not the shape of a Slonik
\* pool throws a TypeError and leaves the registry as it was: no controller is
\* constructed or stored, and a later createMiddleware call with a valid pool
\* constructs the controller bound to that pool.
C31_NonPoolRejected == RejectsNonPools

\* The same with a Slonik whose createPool returns the pool itself.
NonPoolRejectedWhenSync == ~asyncCreatePool => RejectsNonPools

\* With a createPool that returns the pool: createMiddleware threw for an argument that
\* is not a pool, and the next call, with P1, constructed the controller for P1.
NonPoolRejectedReached ==
  /\ ~asyncCreatePool
  /\ Len(calls) >= 2
  /\ calls[1].fn = "createMiddleware" /\ ~PoolShaped(calls[1].arg)
  /\ calls[1].err = "TypeError"
  /\ calls[2].fn = "createMiddleware" /\ calls[2].arg = P1 /\ calls[2].ret = 1
  /\ controllers = <<[pool |-> P1]>>

\* With a createPool that returns a promise: createMiddleware(undefined) returned a
\* controller, createMiddleware(P1) returned the same one, and its begin() has no pool.
NonPoolAccepted ==
  /\ asyncCreatePool
  /\ Len(calls) = 3
  /\ calls[1].fn = "createMiddleware" /\ calls[1].arg = Undefined /\ calls[1].err = "none"
  /\ calls[2].fn = "createMiddleware" /\ calls[2].arg = P1 /\ calls[2].ret = calls[1].ret
  /\ calls[3].fn = "begin" /\ calls[3].err = "UndefinedPoolError"

====
